---- MODULE Spec2Model ----
(***************************************************************************)
(* Model of the Wikid session engine (class Wikid, the Map-based version   *)
(* with notCrsfActions): credentials, Cookie Jar, Token Cache, the         *)
(* override marker, and the async operations login / get / post / logout.  *)
(*                                                                         *)
(* An async method is split at its awaits (fetch and response.json()): the  *)
(* code between two awaits runs to completion in one action.  A call slot  *)
(* holds the position and the locals of one invocation.  Strings the code  *)
(* parses (Set-Cookie values, cookie names and values, the Cookie header)  *)
(* are sequences of one-character strings; all other strings are atoms.    *)
(* The JavaScript values undefined / null / "" of a string-typed           *)
(* expression that the code only tests for truthiness are all written "".  *)
(***************************************************************************)
EXTENDS Integers, Sequences, FiniteSets, TLC

VARIABLES cfg, cookies, tokenCache, overrideLoginCheck, calls,
          fetched, loginCsrf, applied, transport

vars == <<cfg, cookies, tokenCache, overrideLoginCheck, calls,
          fetched, loginCsrf, applied, transport>>

-----------------------------------------------------------------------------
(* Bounds *)

MaxTok == 2
NumHeaders == 4
MaxFetchCount == 2
NumConcHeaders == 2

-----------------------------------------------------------------------------
(* Values *)

NoErr == <<>>

Undefined == [t |-> "undefined"]
Null == [t |-> "null"]
Symbol(desc) == [t |-> "symbol", desc |-> desc]

METHODS == [POST |-> "POST", GET |-> "GET"]

\* new Set("createaccount", "login", ...): the Set constructor takes ONE
\* iterable, so the set holds the characters of its first argument.
SetOfIterable(iter) == {iter[i] : i \in 1..Len(iter)}

notCrsfActions ==
  SetOfIterable(<<"c","r","e","a","t","e","a","c","c","o","u","n","t">>)

TokenVals == {"T" \o ToString(i) : i \in 1..MaxTok}

TokenTypes == {"login", "csrf", "patrol"}

-----------------------------------------------------------------------------
(* String helpers: String.prototype.split / trim on character sequences *)

IsSpace(ch) == ch \in {" ", "\t"}

RECURSIVE TrimStart(_)
TrimStart(s) ==
  IF s # <<>> /\ IsSpace(Head(s)) THEN TrimStart(Tail(s)) ELSE s

RECURSIVE TrimEnd(_)
TrimEnd(s) ==
  IF s # <<>> /\ IsSpace(s[Len(s)])
    THEN TrimEnd(SubSeq(s, 1, Len(s) - 1))
    ELSE s

trim(s) == TrimEnd(TrimStart(s))

\* s.split(sep) for a one-character separator: the list of segments
RECURSIVE split(_, _)
split(s, sep) ==
  IF \E i \in 1..Len(s) : s[i] = sep
    THEN LET i == CHOOSE k \in 1..Len(s) :
                    s[k] = sep /\ \A j \in 1..(k - 1) : s[j] # sep
         IN  <<SubSeq(s, 1, i - 1)>> \o split(SubSeq(s, i + 1, Len(s)), sep)
    ELSE <<s>>

RECURSIVE join(_, _)
join(parts, sep) ==
  IF parts = <<>> THEN <<>>
  ELSE IF Len(parts) = 1 THEN parts[1]
  ELSE parts[1] \o sep \o join(Tail(parts), sep)

-----------------------------------------------------------------------------
(* Cookie Jar: a Map, kept as the sequence of its entries in iteration order *)

MapHas(m, k) == \E i \in 1..Len(m) : m[i].name = k

MapSet(m, k, v) ==
  IF MapHas(m, k)
    THEN [i \in 1..Len(m) |->
            IF m[i].name = k THEN [name |-> k, value |-> v] ELSE m[i]]
    ELSE Append(m, [name |-> k, value |-> v])

MapDelete(m, k) == SelectSeq(m, LAMBDA e : e.name # k)

\* Variant: an empty value is stored instead of deleting the name
storeCookieAlways(jar, name, value) == MapSet(jar, trim(name), trim(value))

\* if(value) this.#cookies.set(...) else this.#cookies.delete(...)
storeCookie(jar, name, value) ==
  IF value # <<>>
    THEN MapSet(jar, trim(name), trim(value))
    ELSE MapDelete(jar, trim(name))

\* const [name, value] = nameValue.split("=")
destructure(jar, parts) ==
  storeCookie(jar, parts[1], IF Len(parts) >= 2 THEN parts[2] ELSE <<>>)

\* One iteration of the loop of #updateCookies
updateCookie(jar, header) ==
  destructure(jar, split(split(header, ";")[1], "="))

RECURSIVE updateCookiesLoop(_, _)
updateCookiesLoop(jar, headers) ==
  IF headers = <<>> THEN jar
  ELSE updateCookiesLoop(updateCookie(jar, Head(headers)), Tail(headers))

\* setCookieHeaders is null, a string, or an array of strings
NoHeader == [t |-> "null"]
StrHeader(s) == [t |-> "str", s |-> s]
ArrHeader(l) == [t |-> "arr", l |-> l]

\* Variant: the jar is rebuilt from the response alone
updateCookiesReplaces(jar, setCookieHeaders) ==
  IF setCookieHeaders = NoHeader
       \/ (setCookieHeaders.t = "str" /\ setCookieHeaders.s = <<>>)
    THEN jar
    ELSE updateCookiesLoop(<<>>, IF setCookieHeaders.t = "arr"
                                   THEN setCookieHeaders.l
                                   ELSE <<setCookieHeaders.s>>)

\* #updateCookies(setCookieHeaders)
updateCookies(jar, setCookieHeaders) ==
  IF setCookieHeaders = NoHeader
       \/ (setCookieHeaders.t = "str" /\ setCookieHeaders.s = <<>>)
    THEN jar
    ELSE LET headers == IF setCookieHeaders.t = "arr"
                          THEN setCookieHeaders.l
                          ELSE <<setCookieHeaders.s>>
         IN  updateCookiesLoop(jar, headers)

getCookieHeader(jar) ==
  join([i \in 1..Len(jar) |-> jar[i].name \o <<"=">> \o jar[i].value],
       <<";", " ">>)

-----------------------------------------------------------------------------
(* Token Cache: a Map from token type to token *)

EmptyCache == [t \in {} |-> ""]

\* Variant: storing a token drops the entries of the other types
CacheSetReplaces(m, k, v) == [t \in {k} |-> v]

\* Variant: storing a token writes the value into every entry
CacheSetWritesAll(m, k, v) == [t \in (DOMAIN m) \cup {k} |-> v]

CacheSet(m, k, v) == [t \in (DOMAIN m) \cup {k} |-> IF t = k THEN v ELSE m[t]]

-----------------------------------------------------------------------------
(* Inputs: credentials, payloads, transport responses *)

Configs ==
  [baseUrl : {"", "https://wiki.example/"}, botUsername : {"", "Bot"},
   botPassword : {"", "pw"}, private : BOOLEAN]

Complete(c) == c.baseUrl # "" /\ c.botUsername # "" /\ c.botPassword # ""

\* null, "a=1; Path=/", "a=; Path=/", "b=2", "a= ", "a=1, b=2",
\* ["a=1", "b=2"], "a=2", "c=x=y", "b=", ["a=", "b=2"]
HeaderCatalog ==
  << NoHeader,
     StrHeader(<<"a","=","1",";"," ","P","a","t","h","=","/">>),
     StrHeader(<<"a","=",";"," ","P","a","t","h","=","/">>),
     StrHeader(<<"b","=","2">>),
     StrHeader(<<"a","="," ">>),
     StrHeader(<<"a","=","1",","," ","b","=","2">>),
     ArrHeader(<< <<"a","=","1">>, <<"b","=","2">> >>),
     StrHeader(<<"a","=","2">>),
     StrHeader(<<"c","=","x","=","y">>),
     StrHeader(<<"b","=">>),
     ArrHeader(<< <<"a","=">>, <<"b","=","2">> >>) >>

SetCookieHeaders ==
  {HeaderCatalog[i] : i \in 1..(IF NumHeaders < Len(HeaderCatalog)
                                  THEN NumHeaders ELSE Len(HeaderCatalog))}

\* A response body: not JSON at all, or a JSON object of which the code
\* reads query.tokens[<key>], login.result and login.reason
NoBody ==
  [json |-> FALSE, tokKey |-> "", tokVal |-> "", result |-> "", reason |-> ""]

EmptyJson == [NoBody EXCEPT !.json = TRUE]

TokensBody(k, v) == [EmptyJson EXCEPT !.tokKey = k, !.tokVal = v]

LoginBody(res, why) == [EmptyJson EXCEPT !.result = res, !.reason = why]

Bodies ==
  {NoBody, EmptyJson}
    \cup {TokensBody(t \o "token", v) : t \in {"login", "csrf"}, v \in TokenVals}
    \cup {LoginBody("Success", ""), LoginBody("Failed", ""),
          LoginBody("Failed", "WrongPass")}

\* `${status} - ${statusText}` of the responses whose ok is false
HttpFailures == {"404 - Not Found", "503 - Service Unavailable"}

\* status "throw": fetch rejects; "httperr": response.ok is false
Responses ==
  {[status |-> "throw", http |-> "", setCookie |-> NoHeader, body |-> NoBody]}
    \cup {[status |-> "httperr", http |-> f, setCookie |-> h, body |-> NoBody] :
            f \in HttpFailures,
            h \in SetCookieHeaders}
    \cup {[status |-> "ok", http |-> "200 - OK", setCookie |-> h, body |-> b] :
            h \in SetCookieHeaders, b \in Bodies}

NoData == [kind |-> "none", action |-> "", token |-> "", lgtoken |-> ""]

Actions == {"edit", "patrol", "login"}

\* Payloads a caller hands to post: plain objects and non-plain values
Datas ==
  {[NoData EXCEPT !.kind = k] : k \in {"array", "primitive", "null"}}
    \cup {[NoData EXCEPT !.kind = "object", !.action = a] : a \in Actions}
    \cup {[NoData EXCEPT !.kind = "object", !.action = "edit", !.token = "X"]}

\* tokenFields: the values of all "token" fields of the form body, in order
NoReq ==
  [method |-> "", type |-> "", cookie |-> <<>>, token |-> "",
   lgtoken |-> "", action |-> "", tokenFields |-> <<>>]

NoResult == [kind |-> "none", ok |-> FALSE, error |-> NoErr]

Slots == {"c1", "c2"}

IdleCall ==
  [pc |-> "idle", op |-> "none", data |-> NoData, hdr |-> <<>>,
   tokType |-> "", req |-> NoReq,
   pre |-> [cookies |-> <<>>, tokenCache |-> EmptyCache],
   log |-> <<>>, result |-> NoResult, prev |-> "none",
   parsing |-> FALSE, body |-> NoBody]

-----------------------------------------------------------------------------
(* The engine state a synchronous code segment reads and writes *)

Eng == [cookies |-> cookies, tokenCache |-> tokenCache,
        ov |-> overrideLoginCheck]

\* Outcome of a synchronous segment: it throws, suspends at a fetch, or
\* returns a value
Throw(e, err) ==
  [kind |-> "throw", eng |-> e, err |-> err, req |-> NoReq, val |-> "",
   hdr |-> <<>>, tokType |-> "", stage |-> ""]

Await(e, req, stage) ==
  [kind |-> "await", eng |-> e, err |-> NoErr, req |-> req, val |-> "",
   hdr |-> <<>>, tokType |-> "", stage |-> stage]

Value(e, val) ==
  [kind |-> "return", eng |-> e, err |-> NoErr, req |-> NoReq, val |-> val,
   hdr |-> <<>>, tokType |-> "", stage |-> ""]

-----------------------------------------------------------------------------
(* Precondition guards *)

\* Variant: the botPassword assertion is missing
validateSkipsPassword(ov, override) ==
  IF ov = override THEN NoErr
  ELSE IF cfg.baseUrl = "" THEN <<"Missing baseUrl.">>
  ELSE IF cfg.botUsername = "" THEN <<"Missing botUsername.">>
  ELSE NoErr

\* Variant: the marker is compared with == (undefined == null)
validateLooseEquality(ov, override) ==
  IF ov = override \/ {ov, override} \subseteq {Undefined, Null} THEN NoErr
  ELSE IF cfg.baseUrl = "" THEN <<"Missing baseUrl.">>
  ELSE IF cfg.botUsername = "" THEN <<"Missing botUsername.">>
  ELSE IF cfg.botPassword = "" THEN <<"Missing botPassword.">>
  ELSE NoErr

\* if(this.#overrideLoginCheck === override) return; then three assertions
validate(ov, override) ==
  IF ov = override THEN NoErr
  ELSE IF cfg.baseUrl = "" THEN <<"Missing baseUrl.">>
  ELSE IF cfg.botUsername = "" THEN <<"Missing botUsername.">>
  ELSE IF cfg.botPassword = "" THEN <<"Missing botPassword.">>
  ELSE NoErr

validateAfterLogin(ov, override, cache, jar) ==
  IF ov = override THEN NoErr
  ELSE IF "login" \notin DOMAIN cache THEN <<"Not logged in.">>
  ELSE IF ~(Len(jar) > 0) THEN <<"Not logged in.">>
  ELSE NoErr

-----------------------------------------------------------------------------------------------------------------------------------------------------
(* get: the code up to its fetch, and the code after the fetch *)

\* Variant: the session check is made whatever the private flag says
getGuardAlwaysPrivate(e, override) ==
  IF validate(e.ov, Null) # NoErr THEN validate(e.ov, Null)
  ELSE validateAfterLogin(e.ov, override, e.tokenCache, e.cookies)

\* this.#validate(); this.#private && this.#validateAfterLogin(override)
getGuard(e, override) ==
  IF validate(e.ov, Null) # NoErr THEN validate(e.ov, Null)
  ELSE IF cfg.private
    THEN validateAfterLogin(e.ov, override, e.tokenCache, e.cookies)
  ELSE NoErr

\* Variant: get leaves the marker it found
getSendKeepsMarker(e, type, err) ==
  IF err # NoErr THEN Throw(e, err)
  ELSE Await(e,
             [NoReq EXCEPT !.method = METHODS.GET, !.type = type,
                           !.cookie = getCookieHeader(e.cookies)],
             "await_get")

\* Variant: get clears the marker before it is rejected
getSendClearsOnReject(e, type, err) ==
  IF err # NoErr THEN Throw([e EXCEPT !.ov = Null], err)
  ELSE Await([e EXCEPT !.ov = Null],
             [NoReq EXCEPT !.method = METHODS.GET, !.type = type,
                           !.cookie = getCookieHeader(e.cookies)],
             "await_get")

\* this.#overrideLoginCheck = null; ...; await fetch(url, {method, headers})
getSend(e, type, err) ==
  IF err # NoErr THEN Throw(e, err)
  ELSE Await([e EXCEPT !.ov = Null],
             [NoReq EXCEPT !.method = METHODS.GET, !.type = type,
                           !.cookie = getCookieHeader(e.cookies)],
             "await_get")

getBegin(e, type, override) == getSend(e, type, getGuard(e, override))

\* this.#updateCookies(...); return await response.json()
getBody(j, body) ==
  IF ~body.json
    THEN [err |-> <<"invalid json">>, cookies |-> j, body |-> NoBody]
    ELSE [err |-> NoErr, cookies |-> j, body |-> body]

\* Variant: the cookies of a non-success response are applied
getEndAppliesCookiesOnError(jar, resp) ==
  IF resp.status = "throw"
    THEN [err |-> <<"fetch failed">>, cookies |-> jar, body |-> NoBody]
  ELSE IF resp.status # "ok"
    THEN [err |-> <<"HTTP error! status: " \o resp.http>>,
          cookies |-> updateCookies(jar, resp.setCookie), body |-> NoBody]
  ELSE getBody(updateCookies(jar, resp.setCookie), resp.body)

\* Valid.assert(ok, `HTTP error! ...`); this.#updateCookies(...); json()
getEnd(jar, resp) ==
  IF resp.status = "throw"
    THEN [err |-> <<"fetch failed">>, cookies |-> jar, body |-> NoBody]
  ELSE IF resp.status # "ok"
    THEN [err |-> <<"HTTP error! status: " \o resp.http>>, cookies |-> jar,
          body |-> NoBody]
  ELSE getBody(updateCookies(jar, resp.setCookie), resp.body)

-----------------------------------------------------------------------------
(* #getToken: up to the await of get, and after it *)

Sass(type, cause) == <<"Error fetching " \o type \o " token.">> \o cause

\* the try block around get: a failure of get is wrapped and rethrown
getTokenCatch(g, type) ==
  IF g.kind = "throw"
    THEN [Throw(g.eng, Sass(type, g.err)) EXCEPT !.tokType = type]
    ELSE [g EXCEPT !.tokType = type]

\* await this.get("api.php", params, useOverride ? marker : null)
getTokenFetch(e1, type, useOverride) ==
  getTokenCatch(getBegin(e1, type, IF useOverride THEN e1.ov ELSE Null), type)

\* Variant: the cache is not consulted before fetching
getTokenLookupNoCache(e, type, useOverride) ==
  getTokenFetch(IF useOverride
                  THEN [e EXCEPT !.ov = Symbol(type \o " token fetch")]
                  ELSE e,
                type, useOverride)

getTokenLookup(e, type, useOverride) ==
  IF type \in DOMAIN e.tokenCache
    THEN [Value(e, e.tokenCache[type]) EXCEPT !.tokType = type]
    ELSE getTokenFetch(IF useOverride
                         THEN [e EXCEPT !.ov = Symbol(type \o " token fetch")]
                         ELSE e,
                       type, useOverride)

getTokenBegin(e, type0, useOverride) ==
  getTokenLookup(e, IF type0 \in notCrsfActions THEN "csrf" ELSE type0,
                 useOverride)

\* const token = json?.query?.tokens?.[tokenKey]
tokenOf(json, tokenKey) ==
  IF json.json /\ json.tokKey = tokenKey THEN json.tokVal ELSE ""

\* Variant: the token is stored without the assertion on it
getTokenStoreUnchecked(r, cache, type, token) ==
  IF r.err # NoErr
    THEN [err |-> Sass(type, r.err), cookies |-> r.cookies,
          tokenCache |-> cache, token |-> ""]
  ELSE [err |-> NoErr, cookies |-> r.cookies,
        tokenCache |-> CacheSet(cache, type, token), token |-> token]

\* Valid.assert(!!token, ...); this.#tokenCache.set(type, token); the catch
getTokenStore(r, cache, type, token) ==
  IF r.err # NoErr
    THEN [err |-> Sass(type, r.err), cookies |-> r.cookies,
          tokenCache |-> cache, token |-> ""]
  ELSE IF token = ""
    THEN [err |-> Sass(type, <<"Unexpected " \o type
                                 \o " token response structure">>),
          cookies |-> r.cookies, tokenCache |-> cache, token |-> ""]
  ELSE [err |-> NoErr, cookies |-> r.cookies,
        tokenCache |-> CacheSet(cache, type, token), token |-> token]

getTokenParse(r, cache, type) ==
  getTokenStore(r, cache, type, tokenOf(r.body, type \o "token"))

getTokenEnd(jar, cache, type, resp) ==
  getTokenParse(getEnd(jar, resp), cache, type)

-----------------------------------------------------------------------------
(* post: up to the token lookup, the send, and the code after the fetch *)

isPlainObject(data) == data.kind = "object"

\* Variant: the payload shape is not checked
PostDataErrAccepts(data) == NoErr

PostDataErr(data) ==
  IF isPlainObject(data) THEN NoErr
  ELSE <<"Invalid data format. Use plain object.">>

\* const tokenType = notCrsfActions.has(action) ? action : "csrf"
tokenTypeOf(action) == IF action \in notCrsfActions THEN action ELSE "csrf"

\* for(const [k,v] of Object.entries(data)) body.append(k, String(v)):
\* the "token" fields of the form after the loop
formTokens(data) == IF data.token # "" THEN <<data.token>> ELSE <<>>

\* Variant: the caller's token field is left in the form
deleteTokenKeeps(fields) == fields

\* body.delete("token")
deleteToken(fields) == <<>>

\* if(token) body.append("token", token)
appendToken(fields, token) ==
  IF token # "" THEN Append(fields, token) ELSE fields

\* Variant: the resolved token is not appended to the form
postSendDropsToken(e, data, hdr, token, tokType) ==
  [Await(e, [NoReq EXCEPT !.method = METHODS.POST, !.cookie = hdr,
                          !.lgtoken = data.lgtoken, !.action = data.action,
                          !.tokenFields = deleteToken(formTokens(data))],
         "await_post")
     EXCEPT !.hdr = hdr, !.tokType = tokType]

\* body.delete("token"); if(token) body.append("token", token); fetch(...)
postSend(e, data, hdr, token, tokType) ==
  [Await(e, [NoReq EXCEPT !.method = METHODS.POST, !.cookie = hdr,
                          !.token = IF token # "" THEN token ELSE "",
                          !.lgtoken = data.lgtoken, !.action = data.action,
                          !.tokenFields =
                             appendToken(deleteToken(formTokens(data)), token)],
         "await_post")
     EXCEPT !.hdr = hdr, !.tokType = tokType]

\* the outcome t of await this.#getToken(tokenType)
postAwaitToken(t, data, hdr) ==
  IF t.kind = "return" THEN postSend(t.eng, data, hdr, t.val, t.tokType)
  ELSE IF t.kind = "await"
    THEN [t EXCEPT !.hdr = hdr, !.stage = "await_posttoken"]
  ELSE t

\* Variant: a token is looked up for action "login" too
postTokenAlwaysLooksUp(e, data, hdr) ==
  postAwaitToken(getTokenBegin(e, tokenTypeOf(data.action), FALSE), data, hdr)

\* const token = data.action === "login" ? null : await this.#getToken(...)
postToken(e, data, hdr) ==
  IF data.action = "login" THEN postSend(e, data, hdr, "", "")
  ELSE postAwaitToken(getTokenBegin(e, tokenTypeOf(data.action), FALSE),
                      data, hdr)

postBegin(e, data) ==
  IF validate(e.ov, Null) # NoErr THEN Throw(e, validate(e.ov, Null))
  ELSE IF PostDataErr(data) # NoErr THEN Throw(e, PostDataErr(data))
  ELSE postToken(e, data, getCookieHeader(e.cookies))

postBody(j, body) ==
  IF ~body.json
    THEN [err |-> <<"invalid json">>, cookies |-> j, body |-> NoBody]
    ELSE [err |-> NoErr, cookies |-> j, body |-> body]

postEnd(jar, resp) ==
  IF resp.status = "throw"
    THEN [err |-> <<"fetch failed">>, cookies |-> jar, body |-> NoBody]
  ELSE IF resp.status # "ok"
    THEN [err |-> <<"HTTP error! status: " \o resp.http>>, cookies |-> jar,
          body |-> NoBody]
  ELSE postBody(updateCookies(jar, resp.setCookie), resp.body)

-----------------------------------------------------------------------------
(* login: the segments between its awaits, and its catch block *)

LoginData(loginToken) ==
  [NoData EXCEPT !.kind = "object", !.action = "login", !.lgtoken = loginToken]

Staged(o, stage) == IF o.kind = "await" THEN [o EXCEPT !.stage = stage] ELSE o

\* await this.post("api.php", {action: "login", ..., lgtoken: loginToken})
loginPost(e, loginToken) ==
  Staged(postBegin(e, LoginData(loginToken)), "await_loginpost")

\* the outcome t of await this.#getLoginToken()
loginAwaitToken(t) ==
  IF t.kind = "return" THEN loginPost(t.eng, t.val)
  ELSE Staged(t, "await_logintoken")

\* this.#validate(); const loginToken = await this.#getLoginToken()
loginBegin(e) ==
  IF validate(e.ov, Null) # NoErr THEN Throw(e, validate(e.ov, Null))
  ELSE loginAwaitToken(getTokenBegin(e, "login", TRUE))

\* Variant: any login.result counts as a success
loginCheckAnyResult(e, json) ==
  IF json.result = ""
    THEN Throw(e, <<"Unexpected login response structure">>)
  ELSE Staged(getTokenBegin(e, "csrf", TRUE), "await_csrftoken")

\* the two assertions on json.login.result, then await this.#getCsrfToken()
loginCheck(e, json) ==
  IF json.result = ""
    THEN Throw(e, <<"Unexpected login response structure">>)
  ELSE IF json.result # "Success"
    THEN Throw(e, <<"Login failed: " \o (IF json.reason # ""
                                           THEN json.reason
                                           ELSE "Unknown error")>>)
  ELSE Staged(getTokenBegin(e, "csrf", TRUE), "await_csrftoken")

\* Variant: the error is rethrown instead of returned
LoginCatchRethrows(error) == [kind |-> "throw", ok |-> FALSE, error |-> error]

\* catch (error) { return {ok: false, error} }
LoginCatch(error) == [kind |-> "return", ok |-> FALSE, error |-> error]

Raised(error) == [kind |-> "throw", ok |-> FALSE, error |-> error]

Returned == [kind |-> "return", ok |-> TRUE, error |-> NoErr]

-----------------------------------------------------------------------------
(* Actions *)

CanStart(c) == calls[c].pc \in {"idle", "done"}

Snapshot == [cookies |-> cookies, tokenCache |-> tokenCache]

\* The engine state after a response r has been processed
After(r, cache) ==
  [cookies |-> r.cookies, tokenCache |-> cache, ov |-> overrideLoginCheck]

ResultOf(op, o) ==
  IF o.kind = "return" THEN Returned
  ELSE IF op = "login" THEN LoginCatch(o.err)
  ELSE Raised(o.err)

\* The operation that finished in slot c before the current one
PrevOp(c) == IF CanStart(c) THEN calls[c].op ELSE calls[c].prev

\* The call in slot c starts with, or resumes to, the outcome o of a
\* synchronous segment
Step(c, op, data, pre, log, o) ==
  /\ cookies' = o.eng.cookies
  /\ tokenCache' = o.eng.tokenCache
  /\ overrideLoginCheck' = o.eng.ov
  /\ calls' = [calls EXCEPT ![c] =
       IF o.kind = "await"
         THEN [pc |-> o.stage, op |-> op, data |-> data, hdr |-> o.hdr,
               tokType |-> o.tokType, req |-> o.req, pre |-> pre,
               log |-> Append(log, o.req), result |-> NoResult,
               prev |-> PrevOp(c), parsing |-> FALSE, body |-> NoBody]
         ELSE [pc |-> "done", op |-> op, data |-> data, hdr |-> o.hdr,
               tokType |-> o.tokType, req |-> NoReq, pre |-> pre, log |-> log,
               result |-> ResultOf(op, o), prev |-> PrevOp(c),
               parsing |-> FALSE, body |-> NoBody]]

Resume(c, k, o) == Step(c, k.op, k.data, k.pre, k.log, o)

Tagged(o, tokType) == [o EXCEPT !.tokType = tokType]

Bump(type) ==
  [fetched EXCEPT ![type] = IF @ < MaxFetchCount THEN @ + 1 ELSE @]

\* What resumes the call suspended in slot c: an answer of the transport
\* (for an ok response the code up to and after await response.json() is
\* then one step), or, when the cookies of its response have been applied
\* already, the body of that response
Pending(c) ==
  IF calls[c].parsing
    THEN {[status |-> "ok", http |-> "200 - OK", setCookie |-> NoHeader,
           body |-> calls[c].body]}
    ELSE transport

\* fetch resolves with an ok response: its cookies are applied and the call
\* suspends again at await response.json(), where another call may run
ResponseArrives(c) ==
  /\ calls[c].pc \notin {"idle", "done"}
  /\ ~calls[c].parsing
  /\ \E resp \in transport :
       /\ resp.status = "ok"
       /\ cookies' = updateCookies(cookies, resp.setCookie)
       /\ calls' = [calls EXCEPT ![c].parsing = TRUE, ![c].body = resp.body]
  /\ UNCHANGED <<cfg, transport, applied, tokenCache, overrideLoginCheck,
                 fetched, loginCsrf>>

Login(c) ==
  /\ CanStart(c)
  /\ Step(c, "login", NoData, Snapshot, <<>>, loginBegin(Eng))
  /\ UNCHANGED <<cfg, transport, applied, fetched, loginCsrf>>

LoginTokenResumed(c, k, r) ==
  /\ Resume(c, k, IF r.err # NoErr THEN Throw(After(r, r.tokenCache), r.err)
                  ELSE loginPost(After(r, r.tokenCache), r.token))
  /\ fetched' = IF r.err = NoErr THEN Bump(k.tokType) ELSE fetched

LoginTokenResponse(c) ==
  /\ calls[c].pc = "await_logintoken"
  /\ \E resp \in Pending(c) :
       LoginTokenResumed(c, calls[c],
         getTokenEnd(cookies, tokenCache, calls[c].tokType, resp))
  /\ UNCHANGED <<cfg, transport, applied, loginCsrf>>

LoginPostResumed(c, k, r) ==
  Resume(c, k, IF r.err # NoErr THEN Throw(After(r, tokenCache), r.err)
               ELSE loginCheck(After(r, tokenCache), r.body))

LoginPostResponse(c) ==
  /\ calls[c].pc = "await_loginpost"
  /\ \E resp \in Pending(c) :
       LoginPostResumed(c, calls[c], postEnd(cookies, resp))
  /\ UNCHANGED <<cfg, transport, applied, fetched, loginCsrf>>

LoginCsrfResumed(c, k, r) ==
  /\ Resume(c, k, IF r.err # NoErr THEN Throw(After(r, r.tokenCache), r.err)
                  ELSE Tagged(Value(After(r, r.tokenCache), r.token),
                              k.tokType))
  /\ fetched' = IF r.err = NoErr THEN Bump(k.tokType) ELSE fetched
  /\ loginCsrf' = IF r.err = NoErr THEN r.token ELSE loginCsrf

LoginCsrfResponse(c) ==
  /\ calls[c].pc = "await_csrftoken"
  /\ \E resp \in Pending(c) :
       LoginCsrfResumed(c, calls[c],
         getTokenEnd(cookies, tokenCache, calls[c].tokType, resp))
  /\ UNCHANGED <<cfg, transport, applied>>

Get(c) ==
  /\ CanStart(c)
  /\ Step(c, "get", NoData, Snapshot, <<>>, getBegin(Eng, "", Null))
  /\ UNCHANGED <<cfg, transport, applied, fetched, loginCsrf>>

\* Variant: a failed get is issued again
GetResumedRetries(c, k, r) ==
  Resume(c, k, IF r.err # NoErr THEN getBegin(After(r, tokenCache), "", Null)
               ELSE Value(After(r, tokenCache), ""))

GetResumed(c, k, r) ==
  Resume(c, k, IF r.err # NoErr THEN Throw(After(r, tokenCache), r.err)
               ELSE Value(After(r, tokenCache), ""))

GetResponse(c) ==
  /\ calls[c].pc = "await_get"
  /\ \E resp \in Pending(c) : GetResumed(c, calls[c], getEnd(cookies, resp))
  /\ UNCHANGED <<cfg, transport, applied, fetched, loginCsrf>>

Post(c) ==
  /\ CanStart(c)
  /\ \E data \in Datas :
       Step(c, "post", data, Snapshot, <<>>, postBegin(Eng, data))
  /\ UNCHANGED <<cfg, transport, applied, fetched, loginCsrf>>

PostTokenResumed(c, k, r) ==
  /\ Resume(c, k,
       IF r.err # NoErr
         THEN Tagged(Throw(After(r, r.tokenCache), r.err), k.tokType)
         ELSE postSend(After(r, r.tokenCache), k.data, k.hdr, r.token,
                       k.tokType))
  /\ fetched' = IF r.err = NoErr THEN Bump(k.tokType) ELSE fetched

PostTokenResponse(c) ==
  /\ calls[c].pc = "await_posttoken"
  /\ \E resp \in Pending(c) :
       PostTokenResumed(c, calls[c],
         getTokenEnd(cookies, tokenCache, calls[c].tokType, resp))
  /\ UNCHANGED <<cfg, transport, applied, loginCsrf>>

PostResumed(c, k, r) ==
  Resume(c, k,
    Tagged(IF r.err # NoErr THEN Throw(After(r, tokenCache), r.err)
           ELSE Value(After(r, tokenCache), ""),
           k.tokType))

PostResponse(c) ==
  /\ calls[c].pc = "await_post"
  /\ \E resp \in Pending(c) : PostResumed(c, calls[c], postEnd(cookies, resp))
  /\ UNCHANGED <<cfg, transport, applied, fetched, loginCsrf>>

\* Variant: the Token Cache is not cleared
logoutKeepsTokens(e) == [e EXCEPT !.cookies = <<>>]

\* Variant: one cookie is removed instead of all
logoutDropsOneCookie(e) ==
  [e EXCEPT !.cookies = IF @ = <<>> THEN @ ELSE Tail(@),
            !.tokenCache = EmptyCache]

\* this.#cookies.clear(); this.#tokenCache.clear()
logout(e) == [e EXCEPT !.cookies = <<>>, !.tokenCache = EmptyCache]

Logout(c) ==
  /\ CanStart(c)
  /\ cookies' = logout(Eng).cookies
  /\ tokenCache' = logout(Eng).tokenCache
  /\ calls' = [calls EXCEPT ![c] =
       [IdleCall EXCEPT !.pc = "done", !.op = "logout", !.pre = Snapshot,
                        !.result = Returned, !.prev = PrevOp(c)]]
  /\ fetched' = [t \in TokenTypes |-> 0]
  /\ loginCsrf' = ""
  /\ UNCHANGED <<cfg, transport, applied, overrideLoginCheck>>

\* The last direct application of #updateCookies: its argument and the
\* Cookie Jar it was applied to
NoApplied == [hdr |-> NoHeader, before |-> <<>>]

Init ==
  /\ cfg \in Configs
  /\ cookies = <<>>
  /\ tokenCache = EmptyCache
  /\ overrideLoginCheck = Undefined
  /\ calls = [c \in Slots |-> IdleCall]
  /\ fetched = [t \in TokenTypes |-> 0]
  /\ loginCsrf = ""
  /\ applied = NoApplied
  /\ transport = Responses

\* Sequential use: one call at a time, in slot c1
Next ==
  \/ Login("c1")
  \/ LoginTokenResponse("c1")
  \/ LoginPostResponse("c1")
  \/ LoginCsrfResponse("c1")
  \/ Get("c1")
  \/ GetResponse("c1")
  \/ Post("c1")
  \/ PostTokenResponse("c1")
  \/ PostResponse("c1")
  \/ Logout("c1")

Spec == Init /\ [][Next]_vars

-----------------------------------------------------------------------------
(* Concurrent use: two calls on one instance, interleaved at their network
   suspension points. A synchronous segment runs to completion, so the
   steps are the same actions, taken by either slot. *)

\* The answers of the transport in the concurrent runs
ConcResponses ==
  {r \in Responses :
     r.setCookie \in {HeaderCatalog[i] : i \in 1..NumConcHeaders}}

InitConc ==
  /\ cfg \in {c \in Configs : Complete(c)}
  /\ cookies = <<>>
  /\ tokenCache = EmptyCache
  /\ overrideLoginCheck = Undefined
  /\ calls = [c \in Slots |-> IdleCall]
  /\ fetched = [t \in TokenTypes |-> 0]
  /\ loginCsrf = ""
  /\ applied = NoApplied
  /\ transport = ConcResponses

\* Each slot runs one call; the slots are interchangeable, so the first call
\* to start is put in c1
Fresh(c) == calls[c].pc = "idle" /\ (c = "c1" \/ calls["c1"].pc # "idle")

NextConc ==
  \E c \in Slots :
    \/ Fresh(c) /\ Login(c)
    \/ ResponseArrives(c)
    \/ LoginTokenResponse(c)
    \/ LoginPostResponse(c)
    \/ LoginCsrfResponse(c)
    \/ Fresh(c) /\ Get(c)
    \/ GetResponse(c)
    \/ Fresh(c) /\ Post(c)
    \/ PostTokenResponse(c)
    \/ PostResponse(c)
    \/ Fresh(c) /\ Logout(c)

SpecConc == InitConc /\ [][NextConc]_vars

-----------------------------------------------------------------------------
(* #updateCookies on its own: any Set-Cookie value applied to any jar that
   earlier applications have built *)

InitCookies == Init /\ Complete(cfg)

ApplyCookies ==
  \E h \in {HeaderCatalog[i] : i \in 1..Len(HeaderCatalog)} :
    /\ cookies' = updateCookies(cookies, h)
    /\ applied' = [hdr |-> h, before |-> cookies]
    /\ UNCHANGED <<cfg, transport, tokenCache, overrideLoginCheck, calls,
                   fetched, loginCsrf>>

NextCookies == ApplyCookies

SpecCookies == InitCookies /\ [][NextCookies]_vars

-----
(* Vocabulary of the properties *)

\* The derived Session State: login token cached and Cookie Jar non-empty
Established(jar, cache) == "login" \in DOMAIN cache /\ Len(jar) > 0

\* The documented action-to-token-type policy
ClaimedClassify(action) ==
  IF action \in {"createaccount", "patrol", "rollback", "userrights", "watch"}
    THEN action
  ELSE IF action = "login" THEN "none"
  ELSE "csrf"

OnlyMissing(field) ==
  /\ (cfg.baseUrl = "") <=> (field = "baseUrl")
  /\ (cfg.botUsername = "") <=> (field = "botUsername")
  /\ (cfg.botPassword = "") <=> (field = "botPassword")

Finished(c, op) == calls[c].op = op /\ calls[c].pc = "done"

Started(c, op) == calls[c].op = op /\ calls[c].pc # "idle"

TokenFetches(log) ==
  SelectSeq(log, LAMBDA r : r.method = METHODS.GET /\ r.type # "")

-----------------------------------------------------------------------------
(* Properties *)

\* C1: a login() on an instance with complete credentials that returns
\* {ok:false} leaves the Token Cache and the Cookie Jar exactly as they
\* were before the call.
C1_FailedLoginRestoresState ==
  \A c \in Slots :
    (Finished(c, "login") /\ Complete(cfg) /\ ~calls[c].result.ok)
      => /\ cookies = calls[c].pre.cookies
         /\ tokenCache = calls[c].pre.tokenCache

\* C2: whenever login() returns {ok:true} the login token is cached and
\* the Cookie Jar is non-empty (the session is established).
C2_LoginOkEstablished ==
  \A c \in Slots :
    (Finished(c, "login") /\ calls[c].result.ok)
      => Established(cookies, tokenCache)

\* C3: on a private-mode instance a caller-issued get made while the
\* session is not established fails with "Not logged in." and issues no
\* transport call.
C3_PrivateGetNeedsSession ==
  \A c \in Slots :
    (/\ cfg.private /\ Complete(cfg) /\ Started(c, "get")
     /\ ~Established(calls[c].pre.cookies, calls[c].pre.tokenCache))
      => /\ calls[c].pc = "done"
         /\ calls[c].result = Raised(<<"Not logged in.">>)
         /\ calls[c].log = <<>>

C5_MissingFieldNamed ==
  \A c \in Slots : \A f \in {"baseUrl", "botUsername", "botPassword"} :
    (Started(c, "login") /\ OnlyMissing(f))
      => /\ calls[c].pc = "done"
         /\ calls[c].result = LoginCatch(<<"Missing " \o f \o ".">>)
         /\ calls[c].log = <<>>
         /\ cookies = <<>>
         /\ tokenCache = EmptyCache

W5_LoginWithoutPassword ==
  /\ Finished("c1", "login")
  /\ OnlyMissing("botPassword")
  /\ calls["c1"].result.error = <<"Missing botPassword.">>

\* C6: after a login() that fetched the CSRF token returned {ok:true}, a
\* later post of a csrf-protected action (before any logout) issues exactly
\* one transport call, the POST, carrying the Cookie header rendered from
\* the jar and the CSRF token fetched during that login.
C6_PostAfterLoginUsesCachedCsrf ==
  \A c \in Slots :
    (/\ Started(c, "post") /\ isPlainObject(calls[c].data)
     /\ ClaimedClassify(calls[c].data.action) = "csrf"
     /\ loginCsrf # "")
      => /\ calls[c].pc \in {"await_post", "done"}
         /\ Len(calls[c].log) = 1
         /\ calls[c].log[1].method = METHODS.POST
         /\ calls[c].log[1].token = loginCsrf
         /\ calls[c].log[1].cookie = getCookieHeader(calls[c].pre.cookies)
         /\ (calls[c].pc = "await_post" /\ ~calls[c].parsing)
              => calls[c].req.cookie = getCookieHeader(cookies)

W6_EditAfterLogin ==
  /\ Finished("c1", "post")
  /\ calls["c1"].data.action = "edit"
  /\ loginCsrf # ""
  /\ calls["c1"].result = Returned
  /\ Len(calls["c1"].log) = 1
  /\ calls["c1"].log[1].cookie # <<>>

\* C7: cache-hit law under sequential use: between two logouts a token type
\* is fetched successfully at most once, a call fetches only types that
\* were not cached when it started, and the token a request carries is the
\* cached value.
C7_CacheHitLaw ==
  /\ \A t \in TokenTypes : fetched[t] <= 1
  /\ \A c \in Slots :
       /\ \A i \in 1..Len(TokenFetches(calls[c].log)) :
            TokenFetches(calls[c].log)[i].type
              \notin DOMAIN calls[c].pre.tokenCache
       /\ calls[c].pc \in {"await_logintoken", "await_csrftoken",
                           "await_posttoken"}
            => calls[c].tokType \notin DOMAIN tokenCache
       /\ (calls[c].pc = "await_post" /\ calls[c].data.action # "login")
            => /\ calls[c].tokType \in DOMAIN tokenCache
               /\ calls[c].req.token = tokenCache[calls[c].tokType]
       /\ calls[c].pc = "await_loginpost"
            => /\ "login" \in DOMAIN tokenCache
               /\ calls[c].req.lgtoken = tokenCache["login"]

W7_PostHitsCache ==
  /\ Finished("c1", "post")
  /\ isPlainObject(calls["c1"].data)
  /\ calls["c1"].data.action # "login"
  /\ "csrf" \in DOMAIN calls["c1"].pre.tokenCache
  /\ fetched["csrf"] = 1
  /\ Len(calls["c1"].log) = 1
  /\ calls["c1"].log[1].token = calls["c1"].pre.tokenCache["csrf"]

\* C8: the token type post resolves and attaches for an action equals the
\* documented classification: createaccount, patrol, rollback, userrights
\* and watch use their own name, login needs no token, all others use csrf.
C8_PostUsesClassifiedType ==
  \A c \in Slots :
    (/\ Started(c, "post") /\ isPlainObject(calls[c].data)
     /\ calls[c].pc \in {"await_posttoken", "await_post"})
      => IF ClaimedClassify(calls[c].data.action) = "none"
           THEN calls[c].pc = "await_post" /\ calls[c].req.token = ""
           ELSE calls[c].tokType = ClaimedClassify(calls[c].data.action)

\* C9: a post with a non-login action made while the session is not
\* established fails with a not-logged-in error and issues no transport
\* call, whatever privateMode is.
C9_PostNeedsSession ==
  \A c \in Slots :
    (/\ Complete(cfg) /\ Started(c, "post") /\ isPlainObject(calls[c].data)
     /\ calls[c].data.action # "login"
     /\ ~Established(calls[c].pre.cookies, calls[c].pre.tokenCache))
      => /\ calls[c].pc = "done"
         /\ calls[c].result.kind = "throw"
         /\ calls[c].result.error # NoErr
         /\ calls[c].result.error[Len(calls[c].result.error)]
              = "Not logged in."
         /\ calls[c].log = <<>>

\* C10: a post whose payload is not a plain object fails with a validation
\* error before any transport call, leaving Token Cache and Cookie Jar
\* unchanged.
C10_NonPlainPayloadRejected ==
  \A c \in Slots :
    (Started(c, "post") /\ ~isPlainObject(calls[c].data))
      => /\ calls[c].pc = "done"
         /\ calls[c].result.kind = "throw"
         /\ calls[c].result.error \in
              {<<"Invalid data format. Use plain object.">>,
               <<"Missing baseUrl.">>, <<"Missing botUsername.">>,
               <<"Missing botPassword.">>}
         /\ Complete(cfg)
              => calls[c].result.error
                   = <<"Invalid data format. Use plain object.">>
         /\ calls[c].log = <<>>
         /\ cookies = calls[c].pre.cookies
         /\ tokenCache = calls[c].pre.tokenCache

W10_ArrayPayloadRejected ==
  /\ Finished("c1", "post")
  /\ calls["c1"].data.kind = "array"
  /\ Complete(cfg)
  /\ calls["c1"].pre.cookies # <<>>
  /\ calls["c1"].result.kind = "throw"

\* C11: every POST of a non-login action carries exactly one token field,
\* and its value is the token the Token Cache holds for the type post
\* resolved, whatever token the caller supplied.
C11_ExactlyOneResolvedToken ==
  \A c \in Slots :
    (calls[c].op = "post" /\ calls[c].data.action # "login")
      => \A i \in 1..Len(calls[c].log) :
           calls[c].log[i].method = METHODS.POST
             => /\ calls[c].tokType \in DOMAIN tokenCache
                /\ calls[c].log[i].tokenFields
                     = <<tokenCache[calls[c].tokType]>>

W11_CallerTokenReplaced ==
  /\ Finished("c1", "post")
  /\ calls["c1"].data.token = "X"
  /\ Len(calls["c1"].log) = 2
  /\ calls["c1"].log[2].method = METHODS.POST
  /\ calls["c1"].log[2].tokenFields = <<tokenCache["csrf"]>>
  /\ tokenCache["csrf"] # "X"

\* C12: logout() in any reachable state returns without failing, issues
\* no transport call, and leaves the Cookie Jar and the Token Cache empty.
C12_LogoutClears ==
  \A c \in Slots :
    Finished(c, "logout")
      => /\ calls[c].result = Returned
         /\ calls[c].log = <<>>
         /\ cookies = <<>>
         /\ tokenCache = EmptyCache

W12_LogoutAfterLogin ==
  /\ Finished("c1", "logout")
  /\ calls["c1"].prev = "login"
  /\ calls["c1"].pre.cookies # <<>>
  /\ DOMAIN calls["c1"].pre.tokenCache = {"login", "csrf"}
  /\ cookies = <<>>

\* C13: logout() is idempotent: a logout() that directly follows a
\* logout() changes nothing of the engine state (Cookie Jar, Token Cache,
\* override marker, credentials).
C13_LogoutIdempotent ==
  [][\A c \in Slots :
       (Finished(c, "logout") /\ calls[c].pc' = "done"
          /\ calls[c].op' = "logout")
         => /\ cookies' = cookies
            /\ tokenCache' = tokenCache
            /\ overrideLoginCheck' = overrideLoginCheck
            /\ cfg' = cfg]_vars

W13_SecondLogout ==
  /\ Finished("c1", "logout")
  /\ calls["c1"].prev = "logout"
  /\ overrideLoginCheck = Null
  /\ calls["c1"].pre.cookies = <<>>
  /\ calls["c1"].pre.tokenCache = EmptyCache

-----------------------------------------------------------------------------
(* Vocabulary of the cookie laws: what a Set-Cookie value says, read
   independently of #updateCookies *)

Has(s, ch) == \E i \in 1..Len(s) : s[i] = ch

First(s, ch) == CHOOSE k \in 1..Len(s) : s[k] = ch /\ ~Has(SubSeq(s, 1, k - 1), ch)

\* The text before the first ch, and the text after it
Before(s, ch) == IF Has(s, ch) THEN SubSeq(s, 1, First(s, ch) - 1) ELSE s
Behind(s, ch) == IF Has(s, ch) THEN SubSeq(s, First(s, ch) + 1, Len(s)) ELSE <<>>

\* The cookie a Set-Cookie value carries: the name up to the first "=", the
\* value from there to the first ";"
CookieName(s) == trim(Before(Before(s, ";"), "="))
CookieValue(s) == Behind(Before(s, ";"), "=")

\* applied holds a single Set-Cookie value (one cookie, no folding)
SingleApplied ==
  /\ applied.hdr.t = "str"
  /\ applied.hdr.s # <<>>
  /\ ~Has(applied.hdr.s, ",")

\* C14: deletion law: applying a Set-Cookie value whose cookie value is
\* empty (such as "a=; Path=/") removes that name from the Cookie Jar,
\* present or not, leaves every other entry alone and never stores the
\* name with an empty value.
C14_DeletionLaw ==
  (SingleApplied /\ CookieValue(applied.hdr.s) = <<>>)
    => /\ ~MapHas(cookies, CookieName(applied.hdr.s))
       /\ cookies = SelectSeq(applied.before,
                      LAMBDA e : e.name # CookieName(applied.hdr.s))

W14_PresentCookieDeleted ==
  /\ applied.hdr = StrHeader(<<"a","=",";"," ","P","a","t","h","=","/">>)
  /\ MapHas(applied.before, "a")
  /\ MapHas(applied.before, "b")
  /\ Len(cookies) = Len(applied.before) - 1
  /\ ~MapHas(cookies, "a")

\* C15: last-write law: the Cookie Jar holds at most one value per name,
\* and after a Set-Cookie value that sets a name to a non-empty value the
\* jar holds exactly that value for the name (attributes after the first
\* ";" discarded).
C15_LastWriteLaw ==
  /\ \A i, j \in 1..Len(cookies) :
       cookies[i].name = cookies[j].name => i = j
  /\ (SingleApplied /\ trim(CookieValue(applied.hdr.s)) # <<>>)
       => \E i \in 1..Len(cookies) :
            /\ cookies[i].name = CookieName(applied.hdr.s)
            /\ cookies[i].value = trim(CookieValue(applied.hdr.s))

\* The folded form of a list of Set-Cookie values: joined by ", "
Folded(l) == join(l, <<",", " ">>)

\* C16: a response with several cookies gives the same Cookie Jar whether
\* the Set-Cookie values arrive as a list or as one comma-joined string.
C16_FoldedSameAsList ==
  \A i \in 1..Len(HeaderCatalog) :
    (HeaderCatalog[i].t = "arr"
       /\ applied.hdr = StrHeader(Folded(HeaderCatalog[i].l)))
      => cookies = updateCookies(applied.before, HeaderCatalog[i])

\* C17: under sequential use a Token Cache entry, once set, keeps its value
\* through every step of login, get and post; the only step that removes
\* entries is logout(), and it removes them all.
C17_CachedTokenStable ==
  [][\/ \A t \in DOMAIN tokenCache :
          t \in DOMAIN tokenCache' /\ tokenCache'[t] = tokenCache[t]
     \/ (tokenCache' = EmptyCache /\ \E c \in Slots : Logout(c))]_vars

W17_SecondLoginKeepsTokens ==
  /\ Finished("c1", "login")
  /\ calls["c1"].result.ok
  /\ calls["c1"].prev = "login"
  /\ DOMAIN calls["c1"].pre.tokenCache = {"login", "csrf"}
  /\ tokenCache = calls["c1"].pre.tokenCache
  /\ Len(calls["c1"].log) = 1

\* C18: on an instance with private false and complete credentials a
\* caller-issued get is never rejected for session state: whatever the
\* state it starts in, it issues its transport call.
C18_PublicGetReachesTransport ==
  \A c \in Slots :
    (~cfg.private /\ Complete(cfg) /\ Started(c, "get"))
      => /\ Len(calls[c].log) = 1
         /\ calls[c].log[1].method = METHODS.GET
         /\ calls[c].log[1].type = ""
         /\ calls[c].result.error # <<"Not logged in.">>

W18_GetAfterFailedLogin ==
  /\ ~cfg.private /\ Complete(cfg)
  /\ Finished("c1", "get")
  /\ calls["c1"].prev = "login"
  /\ ~Established(calls["c1"].pre.cookies, calls["c1"].pre.tokenCache)
  /\ calls["c1"].result = Returned
  /\ Len(calls["c1"].log) = 1

\* C19: a successful login() that starts with an empty Token Cache issues
\* exactly three transport calls, in this order: the GET of the login
\* token, the POST of action=login carrying that token as lgtoken and no
\* token field, the GET of the csrf token.
C19_LoginThreeCalls ==
  \A c \in Slots :
    (/\ Finished(c, "login") /\ calls[c].result.ok
     /\ calls[c].pre.tokenCache = EmptyCache)
      => /\ Len(calls[c].log) = 3
         /\ calls[c].log[1].method = METHODS.GET
         /\ calls[c].log[1].type = "login"
         /\ calls[c].log[2].method = METHODS.POST
         /\ calls[c].log[2].action = "login"
         /\ calls[c].log[2].lgtoken = tokenCache["login"]
         /\ calls[c].log[2].tokenFields = <<>>
         /\ calls[c].log[3].method = METHODS.GET
         /\ calls[c].log[3].type = "csrf"

W19_FirstLoginSucceeds ==
  /\ Finished("c1", "login")
  /\ calls["c1"].result.ok
  /\ calls["c1"].pre.tokenCache = EmptyCache
  /\ calls["c1"].prev = "none"
  /\ Len(calls["c1"].log) = 3
  /\ DOMAIN tokenCache = {"login", "csrf"}

\* C20: a login() with complete credentials that returns {ok:false} on an
\* instance whose session was not established before the call leaves the
\* session not established.
C20_FailedLoginNotEstablished ==
  \A c \in Slots :
    (/\ Finished(c, "login") /\ Complete(cfg) /\ ~calls[c].result.ok
     /\ ~Established(calls[c].pre.cookies, calls[c].pre.tokenCache))
      => ~Established(cookies, tokenCache)

\* C21: no bypass marker is live once a bootstrap token fetch is over, and
\* on a private-mode instance a caller-issued get reaches the transport
\* only from an established session: a bypass never authorizes it.
C21_BypassOnlyForBootstrap ==
  /\ overrideLoginCheck.t # "symbol"
  /\ \A c \in Slots :
       (cfg.private /\ Started(c, "get") /\ calls[c].log # <<>>)
         => Established(calls[c].pre.cookies, calls[c].pre.tokenCache)

\* C22: with calls interleaved at their network suspension points, a
\* bypass marker minted for a bootstrap fetch is consumed by the guard of
\* that fetch before the call suspends: at no suspension point is a marker
\* live, so no other call can meet one, and never are two live.
C22_MarkerNeverOutlivesItsFetch ==
  overrideLoginCheck \in {Undefined, Null}

W22_TwoLoginsAwaitTheirTokens ==
  /\ calls["c1"].op = "login" /\ calls["c1"].pc = "await_logintoken"
  /\ calls["c2"].op = "login" /\ calls["c2"].pc = "await_logintoken"
  /\ cfg.private
  /\ overrideLoginCheck = Null

\* The call in slot c fetched a token of the given type
Fetched(c, type) ==
  \E i \in 1..Len(calls[c].log) :
    calls[c].log[i].method = METHODS.GET /\ calls[c].log[i].type = type

\* C23: when two posts have both missed the Token Cache for the same type
\* and both fetched it, the token each attaches to its request is the value
\* the cache holds for that type afterwards.
C23_ConcurrentMissesConverge ==
  \A c, d \in Slots :
    (/\ c # d
     /\ calls[c].op = "post" /\ calls[d].op = "post"
     /\ calls[c].tokType # "" /\ calls[c].tokType = calls[d].tokType
     /\ Fetched(c, calls[c].tokType) /\ Fetched(d, calls[d].tokType))
      => \A i \in 1..Len(calls[c].log) :
           calls[c].log[i].method = METHODS.POST
             => /\ calls[c].tokType \in DOMAIN tokenCache
                /\ calls[c].log[i].token = tokenCache[calls[c].tokType]

\* The Cookie header that renders a jar: its pairs, joined by "; "
RECURSIVE Rendered(_)
Rendered(jar) ==
  IF jar = <<>> THEN <<>>
  ELSE Head(jar).name \o <<"=">> \o Head(jar).value
         \o (IF Tail(jar) = <<>> THEN <<>> ELSE <<";", " ">> \o Rendered(Tail(jar)))

\* The request the call in slot c issues in this step, if it issues one
Issues(c) == Len(calls[c].log') > 0 /\ calls[c].log' # calls[c].log

PreconditionErrors ==
  {"Missing baseUrl.", "Missing botUsername.", "Missing botPassword.",
   "Not logged in.", "Invalid data format. Use plain object."}

\* The call in slot c was rejected by a precondition check
Rejected(c) ==
  /\ calls[c].op \in {"get", "post"}
  /\ calls[c].pc = "done"
  /\ calls[c].result.kind = "throw"
  /\ calls[c].result.error[Len(calls[c].result.error)] \in PreconditionErrors

\* C25: the step in which a get or post is rejected by a precondition check
\* (configuration, session, payload) leaves the Cookie Jar, the Token Cache
\* and the bypass marker unchanged, and the call has issued no transport
\* call.
C25_RejectionChangesNothing ==
  [][\A c \in Slots :
       (CanStart(c) /\ Rejected(c)')
         => /\ cookies' = cookies
            /\ tokenCache' = tokenCache
            /\ overrideLoginCheck' = overrideLoginCheck
            /\ calls[c].log' = <<>>]_vars

W25_PostRejectedInSession ==
  /\ Rejected("c1")
  /\ calls["c1"].op = "post"
  /\ calls["c1"].result.error = <<"Invalid data format. Use plain object.">>
  /\ calls["c1"].prev = "login"
  /\ cookies # <<>>
  /\ cookies = calls["c1"].pre.cookies
  /\ DOMAIN tokenCache = {"login", "csrf"}
  /\ tokenCache = calls["c1"].pre.tokenCache

\* The configuration error of the first missing credential field
ConfigError ==
  IF cfg.baseUrl = "" THEN <<"Missing baseUrl.">>
  ELSE IF cfg.botUsername = "" THEN <<"Missing botUsername.">>
  ELSE <<"Missing botPassword.">>

\* C26: on an instance with a credential field missing, every get and post
\* fails with the configuration error and issues no transport call, and the
\* marker never takes the value (null) that would make the configuration
\* check return early.
C26_IncompleteConfigAlwaysRejected ==
  ~Complete(cfg)
    => /\ overrideLoginCheck = Undefined
       /\ \A c \in Slots :
            (Started(c, "get") \/ Started(c, "post"))
              => /\ calls[c].pc = "done"
                 /\ calls[c].result = Raised(ConfigError)
                 /\ calls[c].log = <<>>

W26_GetAfterRejectedCalls ==
  /\ cfg.baseUrl # "" /\ cfg.botUsername # "" /\ cfg.botPassword = ""
  /\ Finished("c1", "get")
  /\ calls["c1"].prev = "login"
  /\ calls["c1"].result = Raised(<<"Missing botPassword.">>)

\* The step resumes the call suspended in slot c with the answer r
ResumedWith(c, r) ==
  \/ /\ calls[c].pc = "await_logintoken"
     /\ LoginTokenResumed(c, calls[c],
          getTokenEnd(cookies, tokenCache, calls[c].tokType, r))
  \/ /\ calls[c].pc = "await_loginpost"
     /\ LoginPostResumed(c, calls[c], postEnd(cookies, r))
  \/ /\ calls[c].pc = "await_csrftoken"
     /\ LoginCsrfResumed(c, calls[c],
          getTokenEnd(cookies, tokenCache, calls[c].tokType, r))
  \/ /\ calls[c].pc = "await_get"
     /\ GetResumed(c, calls[c], getEnd(cookies, r))
  \/ /\ calls[c].pc = "await_posttoken"
     /\ PostTokenResumed(c, calls[c],
          getTokenEnd(cookies, tokenCache, calls[c].tokType, r))
  \/ /\ calls[c].pc = "await_post"
     /\ PostResumed(c, calls[c], postEnd(cookies, r))

\* A transport failure: the fetch rejects, the status is not a success, or
\* the body cannot be parsed
Failure(r) == r.status # "ok" \/ ~r.body.json

\* C27: no retries: the step in which a transport failure reaches a call
\* ends the call, with no further request, and the failure is the call's
\* result: raised by get and post, returned as {ok:false} by login.
C27_NoRetry ==
  [][\A c \in Slots : \A r \in Pending(c) :
       (Failure(r) /\ ResumedWith(c, r))
         => /\ calls[c].pc' = "done"
            /\ calls[c].log' = calls[c].log
            /\ calls[c].result.error' # NoErr
            /\ ~calls[c].result.ok'
            /\ calls[c].result.kind' =
                 IF calls[c].op = "login" THEN "return" ELSE "throw"]_vars

W27_LoginStopsAtFailedPost ==
  /\ Finished("c1", "login")
  /\ Len(calls["c1"].log) = 2
  /\ calls["c1"].result = LoginCatch(<<"HTTP error! status: 404 - Not Found">>)
  /\ "csrf" \notin DOMAIN tokenCache

\* C28: when the transport answers a get, or the POST of a post, with a
\* non-success status, the call fails with "HTTP error! status: <status> -
\* <statusText>" of that response, the Cookie Jar is left as it was (the
\* cookies of the failing response are not applied) and nothing is returned.
C28_HttpFailure ==
  [][\A c \in Slots : \A r \in Pending(c) :
       (/\ r.status = "httperr"
        /\ \/ /\ calls[c].pc = "await_get"
              /\ GetResumed(c, calls[c], getEnd(cookies, r))
           \/ /\ calls[c].pc = "await_post"
              /\ PostResumed(c, calls[c], postEnd(cookies, r)))
         => /\ cookies' = cookies
            /\ calls[c].pc' = "done"
            /\ calls[c].result' = Raised(<<"HTTP error! status: " \o r.http>>)]_vars

W28_GetFailsWith503 ==
  /\ Finished("c1", "get")
  /\ calls["c1"].result =
       Raised(<<"HTTP error! status: 503 - Service Unavailable">>)
  /\ Len(calls["c1"].log) = 1
  /\ cookies # <<>>
  /\ cookies = calls["c1"].pre.cookies

\* The answer r to a fetch of a token of the given type has a parsed body
\* without a non-empty "<type>token"
TokenMissing(r, type) ==
  /\ r.status = "ok"
  /\ r.body.json
  /\ ~(r.body.tokKey = type \o "token" /\ r.body.tokVal # "")

\* C29: a token fetch for type t answered by a body without a non-empty
\* "<t>token" fails with an error naming t and stores nothing, so t is
\* still uncached; and a call that resolves a type that is not cached
\* starts with a fetch of it.
C29_MissingTokenNotCached ==
  [][\A c \in Slots :
       /\ \A r \in Pending(c) :
            (/\ calls[c].pc \in {"await_logintoken", "await_csrftoken",
                                 "await_posttoken"}
             /\ TokenMissing(r, calls[c].tokType)
             /\ ResumedWith(c, r))
              => /\ tokenCache' = tokenCache
                 /\ calls[c].tokType \notin DOMAIN tokenCache'
                 /\ calls[c].pc' = "done"
                 /\ calls[c].result.error' =
                      <<"Error fetching " \o calls[c].tokType \o " token.",
                        "Unexpected " \o calls[c].tokType
                           \o " token response structure">>
       /\ (Started(c, "post") /\ calls[c].tokType # ""
             /\ calls[c].tokType \notin DOMAIN calls[c].pre.tokenCache
             /\ calls[c].log # <<>>)
            => /\ calls[c].log[1].method = METHODS.GET
               /\ calls[c].log[1].type = calls[c].tokType]_vars

W29_CsrfFetchWithoutToken ==
  /\ Finished("c1", "post")
  /\ calls["c1"].result =
       Raised(<<"Error fetching csrf token.",
                "Unexpected csrf token response structure">>)
  /\ calls["c1"].prev = "post"
  /\ "csrf" \notin DOMAIN tokenCache
  /\ Len(calls["c1"].log) = 1

\* C30: login goes on after its POST only if login.result is "Success";
\* with login.result absent it returns the unexpected-response-structure
\* failure, with any other value the failure carrying login.reason (or
\* "Unknown error"), and in both cases it issues no csrf fetch.
C30_LoginResultDecides ==
  [][\A c \in Slots : \A r \in Pending(c) :
       (/\ calls[c].pc = "await_loginpost"
        /\ ~Failure(r)
        /\ ResumedWith(c, r))
         => IF r.body.result = "Success"
              THEN calls[c].pc' = "await_csrftoken" \/ calls[c].result.ok'
              ELSE /\ calls[c].pc' = "done"
                   /\ calls[c].log' = calls[c].log
                   /\ ~Fetched(c, "csrf")
                   /\ calls[c].result' =
                        LoginCatch(
                          IF r.body.result = ""
                            THEN <<"Unexpected login response structure">>
                            ELSE <<"Login failed: "
                                     \o (IF r.body.reason = ""
                                           THEN "Unknown error"
                                           ELSE r.body.reason)>>)]_vars

W30_LoginFailedWithoutReason ==
  /\ Finished("c1", "login")
  /\ calls["c1"].result = LoginCatch(<<"Login failed: Unknown error">>)
  /\ Len(calls["c1"].log) = 2
  /\ calls["c1"].log[2].method = METHODS.POST
  /\ "csrf" \notin DOMAIN tokenCache

\* C31: every login() on an instance with complete credentials that reaches
\* its login POST has issued the GET of the login token first, and the
\* lgtoken it posts is the token that GET returned (the one cached by it).
C31_LoginFetchesItsToken ==
  \A c \in Slots :
    (/\ Started(c, "login") /\ Complete(cfg)
     /\ \E i \in 1..Len(calls[c].log) :
          calls[c].log[i].method = METHODS.POST)
      => /\ Len(calls[c].log) >= 2
         /\ calls[c].log[1].method = METHODS.GET
         /\ calls[c].log[1].type = "login"
         /\ calls[c].log[2].method = METHODS.POST
         /\ "login" \in DOMAIN tokenCache
              => calls[c].log[2].lgtoken = tokenCache["login"]

\* C32: whenever login() has returned {ok:true}, the csrf token in the
\* Token Cache comes from a fetch that login issued after its POST: the
\* call's requests end with the POST followed by the GET of the csrf token,
\* and the cache holds the token that GET returned.
C32_CsrfFetchedAfterLogin ==
  \A c \in Slots :
    (Finished(c, "login") /\ calls[c].result.ok)
      => /\ Len(calls[c].log) >= 2
         /\ calls[c].log[Len(calls[c].log) - 1].method = METHODS.POST
         /\ calls[c].log[Len(calls[c].log)].method = METHODS.GET
         /\ calls[c].log[Len(calls[c].log)].type = "csrf"
         /\ "csrf" \in DOMAIN tokenCache
         /\ tokenCache["csrf"] = loginCsrf

\* The cookie names a Set-Cookie argument mentions: one per listed value,
\* and one per comma-separated part of a folded value
Mentioned(h) ==
  IF h.t = "null" THEN {}
  ELSE IF h.t = "arr" THEN {CookieName(h.l[i]) : i \in 1..Len(h.l)}
  ELSE {CookieName(split(h.s, ",")[i]) : i \in 1..Len(split(h.s, ","))}

\* The entries of a jar whose names are not in the set names, in order
Others(jar, names) == SelectSeq(jar, LAMBDA e : e.name \notin names)

\* C33: applying the cookies of a response changes only the entries whose
\* names the response mentions: every other entry of the Cookie Jar is
\* still there with its value, and no other entry has appeared.
C33_OtherCookiesKept ==
  Others(cookies, Mentioned(applied.hdr))
    = Others(applied.before, Mentioned(applied.hdr))

W33_JarAccumulates ==
  /\ applied.hdr = StrHeader(<<"b","=","2">>)
  /\ applied.before = <<[name |-> <<"a">>, value |-> <<"1">>]>>
  /\ cookies = <<[name |-> <<"a">>, value |-> <<"1">>],
                 [name |-> <<"b">>, value |-> <<"2">>]>>

\* C34: the Cookie Jar never maps a name to an empty string and the Token
\* Cache never maps a type to an empty token, whatever Set-Cookie value or
\* token response has been applied.
C34_NoEmptyValues ==
  /\ \A i \in 1..Len(cookies) : cookies[i].value # <<>>
  /\ \A t \in DOMAIN tokenCache : tokenCache[t] # ""

\* C35: every request issued by get or post carries the Cookie header that
\* renders the Cookie Jar as it is when the request is issued: the pairs
\* "name=value" of its entries, in order, joined by "; ".
C35_HeaderRendersCurrentJar ==
  [][\A c \in Slots :
       Issues(c)
         => calls[c].log'[Len(calls[c].log')].cookie = Rendered(cookies')]_vars

\* C36: with the call of slot c1 issued first and logout() called after it
\* (slot c2, the last call made), the Cookie Jar and the Token Cache are
\* empty from the return of logout() on, also when the response of the
\* earlier call arrives afterwards: the session is not established again.
C36_LogoutOutlastsEarlierCall ==
  Finished("c2", "logout")
    => /\ cookies = <<>>
       /\ tokenCache = EmptyCache
       /\ ~Established(cookies, tokenCache)

====
